---- MODULE Spec2Model ----
(***************************************************************************)
(* Model of dual_game: one player turn (Game::play_turn), which runs one   *)
(* Counter::run per objective.  Counter::run spawns a ticking thread,      *)
(* blocks on read_line, sends the stop signal on an mpsc channel and joins *)
(* the thread.  The scoring functions are operators computed as in         *)
(* scoring.rs.  Standard output is assumed writable (print!/flush do not   *)
(* fail) in the specifications below.                                      *)
(***************************************************************************)
EXTENDS Integers, Sequences, FiniteSets, TLC

\* ---- bounds of the model -------------------------------------------------
\* ticks one ticking thread may perform before the player must have pressed ENTER
MaxTicks == 102
\* largest number of objectives in a turn
MaxObjectives == 2

\* objectives drawn by Objectives::generate (a subset of 0..=100)
Targets == {0, 100}
\* player.strength / player.speed values (main.rs gives 50 and 75; poisons lower them)
Strengths == {50}
Speeds == {0, 75}

\* largest distance handed to the tier functions
MaxDiff == 60
\* values of objectives and of the counter (0..=100)
Values == 0..100

\* u32 arguments as [hi, lo]: bit 31 and the 31 low bits
MissInputs == {[hi |-> 0, lo |-> m] : m \in 0..3} \cup
              {[hi |-> 0, lo |-> 2147483647], [hi |-> 1, lo |-> 0],
               [hi |-> 1, lo |-> 2147483646], [hi |-> 1, lo |-> 2147483647]}
StrengthInputs == {0, 40, 50}
\* overflow checks on (debug) or off (release)
Builds == {"debug", "release"}

\* longest score list handed to calculate_average
MaxScores == 5
ScoreInputs == {0, 1, 45, 55, 65, 130, 2147483647}

\* rounds Game::run may start
MaxRounds == 4

\* Game::new arguments: number of players, their stats, objectives per turn
PlayerCounts == {0, 1, 2, 3}
Names == <<"Alice", "Bob", "Carol">>
Vitalities == {0, 3}
InitSpeeds == {3, 10}
InitStrengths == {3, 50}
ObjectiveCounts == {0, 1}
\* (counter_value, miss) pairs Counter::run hands to a turn of Game::run
StopStates == {[counter |-> 0, miss |-> 0], [counter |-> 8, miss |-> 2],
               [counter |-> 30, miss |-> 1], [counter |-> 100, miss |-> 0]}

\* wrong answers get_choice may be given in one call
MaxRetries == 2
\* the lines read_line may hand to get_choice (the empty line is end of input)
Lines == {<<>>, <<"\n">>, <<"1", "\n">>, <<"2", "\n">>, <<"3", "\n">>, <<"0", "\n">>,
          <<"2">>, <<" ", "1", " ", "\n">>, <<"+", "2", "\n">>, <<"0", "1", "\n">>,
          <<"1", "2", "\n">>, <<"1", " ", "2", "\n">>, <<"-", "1", "\n">>,
          <<"+", "\n">>, <<"x", "\n">>}

\* ---- program constants ---------------------------------------------------
\* counter.rs:70  counter = (counter + 1) % 101
Modulus == 101
\* scoring.rs:85  objective + (100 - counter_value)
Cycle == 100
\* player.rs:68-69  if self.speed >= 5 { self.speed -= 5 }
PoisonAmount == 5
\* i32::MAX, the largest value of utils::calculate_score's i32
I32Max == 2147483647
\* game.rs:181  parse::<u32>() reads decimal digits
Radix == 10

VARIABLES
    objectives,   \* play_turn argument: the targets of the turn
    player,       \* play_turn argument: [speed, strength]
    it,           \* number of objectives the for loop has taken so far
    scores,       \* play_turn local: Vec of scores
    mainPc,       \* position of the calling thread
    threads,      \* every thread spawned in the turn: [pc, counter, miss, rx]
    stdin,        \* outcome of the read_line of the current Counter::run
    final,        \* (final_counter, final_miss) bound by handle.join()
    turnResult,   \* what play_turn returned: [status, average, scores]
    ticks,        \* ghost: ticks performed by the current thread
    sent,         \* ghost: stop signals sent in the current Counter::run
    recvd,        \* ghost: stop signals received in the current Counter::run
    lateTicks,    \* ghost: ticks performed after the stop signal was sent
    obs,          \* ghost: thread state at the moment try_recv returned Ok
    shown,        \* ghost: the last progress line rendered in the current Counter::run
    players,      \* Game.players: sequence of [name, vitality, speed, strength]
    objectifs_count, \* Game.objectifs_count
    round,        \* Game.round
    gamePc,       \* position of Game::run
    turnOf,       \* Game::run: index i of the for loop over the players
    roundScores,  \* Game::run local: the turn averages of the round
    loser,        \* Game::run local: loser_index of the round (0 when none yet)
    runResult,    \* what Game::run returned: "running", "ok" or "err"
    choice,       \* Game::run local: what get_choice returned (0 when not yet)
    poisons,      \* ghost: apply_poison calls of the current round
    retries,      \* ghost: answers get_choice refused in the current round
    startVit,     \* ghost: the vitalities Game::new was given
    nonTied,      \* ghost: rounds of the game that had a loser
    call          \* the last call of a scoring function: arguments and result

turnVars == <<objectives, player, it, scores, mainPc, threads, stdin, final,
              turnResult, ticks, sent, recvd, lateTicks, obs, shown>>

choiceVars == <<choice, poisons, retries>>

gameVars == <<players, objectifs_count, round, gamePc, turnOf, roundScores, loser,
              runResult, choice, poisons, retries, startVit, nonTied>>

vars == <<objectives, player, it, scores, mainPc, threads, stdin, final,
          turnResult, ticks, sent, recvd, lateTicks, obs, shown,
          players, objectifs_count, round, gamePc, turnOf, roundScores, loser,
          runResult, choice, poisons, retries, startVit, nonTied, call>>

ghosts == <<ticks, sent, recvd, lateTicks, obs, shown>>

\* ---- scoring.rs ----------------------------------------------------------
Min(a, b) == IF a <= b THEN a ELSE b

\* variant of difference: the distance without the wrap-around
difference_no_wrap(objective, counter_value) ==
    IF counter_value >= objective
    THEN counter_value - objective
    ELSE objective - counter_value

\* variant of difference: the wrap-around taken on one side only
difference_one_sided(objective, counter_value) ==
    LET diff == IF counter_value >= objective
                THEN counter_value - objective
                ELSE objective - counter_value
        wrap_diff == objective + (Cycle - counter_value)
    IN  Min(diff, wrap_diff)

difference(objective, counter_value) ==
    LET diff == IF counter_value >= objective
                THEN counter_value - objective
                ELSE objective - counter_value
        wrap_diff == IF counter_value > objective
                     THEN objective + (Cycle - counter_value)
                     ELSE counter_value + (Cycle - objective)
    IN  Min(diff, wrap_diff)

\* u32 subtraction a - b leaves the type
Underflows(a, b) == a < b

\* scoring.rs:79-88: does one of the subtractions difference evaluates underflow
difference_underflows(objective, counter_value) ==
    \/ IF counter_value >= objective
       THEN Underflows(counter_value, objective)
       ELSE Underflows(objective, counter_value)
    \/ IF counter_value > objective
       THEN Underflows(Cycle, counter_value)
       ELSE Underflows(Cycle, objective)

\* variant of tier_base: the 60 and 40 tiers exchanged
tier_base_swapped(diff) ==
    IF diff = 0 THEN 100
    ELSE IF diff <= 5 THEN 80
    ELSE IF diff <= 10 THEN 40
    ELSE IF diff <= 20 THEN 60
    ELSE IF diff <= 50 THEN 20
    ELSE 0

\* scoring.rs:34-46: the base score of a distance
tier_base(diff) ==
    IF diff = 0 THEN 100
    ELSE IF diff <= 5 THEN 80
    ELSE IF diff <= 10 THEN 60
    ELSE IF diff <= 20 THEN 40
    ELSE IF diff <= 50 THEN 20
    ELSE 0

\* utils.rs:26-33: the arms of the match on diff, before the catch-all
UtilsArms == <<[lo |-> 0, hi |-> 0, base |-> 100],
               [lo |-> 1, hi |-> 5, base |-> 80],
               [lo |-> 6, hi |-> 10, base |-> 60],
               [lo |-> 11, hi |-> 20, base |-> 40],
               [lo |-> 21, hi |-> 50, base |-> 20]>>

\* arms of the match whose range contains diff
utils_arms_of(diff) ==
    {k \in DOMAIN UtilsArms : UtilsArms[k].lo <= diff /\ diff <= UtilsArms[k].hi}

\* utils.rs:26-33: the numerator base the first matching arm adds to strength
utils_base(diff) ==
    IF utils_arms_of(diff) = {} THEN 0
    ELSE UtilsArms[CHOOSE k \in utils_arms_of(diff) :
                      \A j \in utils_arms_of(diff) : k <= j].base

\* ---- utils.rs, with the i32 arithmetic of its signature -------------------
\* miss as i32: the bit pattern of the u32 read as two's complement
as_i32(m) == IF m.hi = 0 THEN m.lo ELSE m.lo - I32Max - 1

\* a + b in i32 for b >= 0: panics on overflow in debug, wraps in release
add_i32(a, b, build) ==
    IF a > I32Max - b
    THEN IF build = "debug"
         THEN [panic |-> TRUE, value |-> 0]
         ELSE [panic |-> FALSE, value |-> (a - I32Max) + (b - I32Max) - 2]
    ELSE [panic |-> FALSE, value |-> a + b]

\* 2^31 / d for 0 < d <= i32::MAX, without leaving 32 bits
pow31_div(d) == (I32Max \div d) + (IF I32Max % d = d - 1 THEN 1 ELSE 0)

\* a / b in i32: panics on a zero divisor and on i32::MIN / -1, truncates
\* toward zero
div_i32(a, b) ==
    LET min == 0 - I32Max - 1
    IN  IF b = 0 \/ (a = min /\ b = 0 - 1) THEN [panic |-> TRUE, value |-> 0]
        ELSE IF a >= 0
        THEN IF b > 0 THEN [panic |-> FALSE, value |-> a \div b]
             ELSE IF b = min THEN [panic |-> FALSE, value |-> 0]
             ELSE [panic |-> FALSE, value |-> 0 - (a \div (0 - b))]
        ELSE IF b > 0
        THEN IF a = min THEN [panic |-> FALSE, value |-> 0 - pow31_div(b)]
             ELSE [panic |-> FALSE, value |-> 0 - ((0 - a) \div b)]
        ELSE IF b = min THEN [panic |-> FALSE, value |-> IF a = min THEN 1 ELSE 0]
        ELSE IF a = min THEN [panic |-> FALSE, value |-> pow31_div(0 - b)]
        ELSE [panic |-> FALSE, value |-> (0 - a) \div (0 - b)]

\* utils::calculate_score(diff, miss, strength) -> i32
utils_calculate_score(diff, miss, strength, build) ==
    LET num == add_i32(utils_base(diff), strength, build)
        den == add_i32(as_i32(miss), 1, build)
    IN  IF num.panic \/ den.panic
        THEN [panic |-> TRUE, value |-> 0, den_zero |-> FALSE]
        ELSE [panic |-> div_i32(num.value, den.value).panic,
              value |-> div_i32(num.value, den.value).value,
              den_zero |-> den.value = 0]

\* acc + x in u32, acc as [hi, lo] (bit 31 and the 31 low bits), 0 <= x <= i32::MAX;
\* overflow records that the sum left the type (and wrapped)
add_u32(acc, x) ==
    IF x > I32Max - acc.lo
    THEN [hi |-> 1 - acc.hi,
          lo |-> x - (I32Max - acc.lo) - 1,
          overflow |-> acc.overflow \/ acc.hi = 1]
    ELSE [acc EXCEPT !.lo = @ + x]

\* n / d in u32 for n and d as [hi, lo], d # 0, n < 2^31 + 2^31 / 2
div_u32(n, d) ==
    IF d.hi = 1
    THEN [hi |-> 0, lo |-> IF n.hi = 1 /\ n.lo >= d.lo THEN 1 ELSE 0]
    ELSE IF n.hi = 0 THEN [hi |-> 0, lo |-> n.lo \div d.lo]
    ELSE IF d.lo = 1 THEN [hi |-> 1, lo |-> n.lo]
    ELSE [hi |-> 0,
          lo |-> (I32Max \div d.lo) + ((I32Max % d.lo) + n.lo + 1) \div d.lo]

\* ScoringCalculator::calculate_score in u32, miss as [hi, lo] and
\* 0 <= strength <= i32::MAX: miss + 1 panics on overflow in debug and wraps to
\* 0 in release, where the division panics
calculate_score_u32(objective, counter_value, miss, strength, build) ==
    LET diff == difference(objective, counter_value)
        base == tier_base(diff)
        num == add_u32([hi |-> 0, lo |-> base, overflow |-> FALSE], strength)
        den == add_u32([hi |-> miss.hi, lo |-> miss.lo, overflow |-> FALSE], 1)
    IN  IF den.overflow
        THEN [panic |-> TRUE, value |-> [hi |-> 0, lo |-> 0]]
        ELSE [panic |-> FALSE, value |-> div_u32(num, den)]

calculate_score(objective, counter_value, miss, strength) ==
    LET diff == difference(objective, counter_value)
        base == tier_base(diff)
    IN  (base + strength) \div (miss + 1)

\* scoring.rs:60: let sum: u32 = scores.iter().sum()
RECURSIVE Sum(_)
Sum(s) ==
    IF s = <<>> THEN [hi |-> 0, lo |-> 0, overflow |-> FALSE]
    ELSE add_u32(Sum(SubSeq(s, 1, Len(s) - 1)), s[Len(s)])

\* (sum as f64 / len as f64).ceil() for a u32 sum [hi, lo] and len > 0; the
\* f64 quotient of two integers below 2^32 rounds to an integer only when exact
ceil_div(sum, len) ==
    IF sum.hi = 0
    THEN (sum.lo \div len) + (IF sum.lo % len = 0 THEN 0 ELSE 1)
    ELSE LET rem == (I32Max % len) + (sum.lo % len) + 1
         IN  (I32Max \div len) + (sum.lo \div len) + (rem \div len)
               + (IF rem % len = 0 THEN 0 ELSE 1)

\* ScoringCalculator::calculate_average: the sum panics on overflow in debug and
\* wraps in release; 0.0/0.0 is NaN and NaN as u32 is 0
average_u32(s, build) ==
    IF Sum(s).overflow /\ build = "debug" THEN [panic |-> TRUE, value |-> 0]
    ELSE IF Len(s) = 0 THEN [panic |-> FALSE, value |-> 0]
    ELSE [panic |-> FALSE, value |-> ceil_div(Sum(s), Len(s))]

\* calculate_average where the sum stays in u32 (every build agrees)
calculate_average(s) == average_u32(s, "release").value

\* ---- helpers -------------------------------------------------------------
Ticking == {"check", "display", "tick", "sleep"}
NoState == [counter |-> 0, miss |-> 0]
NoObs == [counter |-> 0, miss |-> 0, ticks |-> 0]
NoShown == [any |-> FALSE, counter |-> 0, miss |-> 0]
Running == [status |-> "running", average |-> 0, scores |-> <<>>]
Joined == [pc |-> "joined", counter |-> 0, miss |-> 0, rx |-> 0]
cur == Len(threads)
NoCall == [f |-> "none"]

\* no Game::run in progress
NoGame ==
    /\ players = <<>>
    /\ objectifs_count = 0
    /\ round = 0
    /\ gamePc = "none"
    /\ turnOf = 0
    /\ roundScores = <<>>
    /\ loser = 0
    /\ runResult = "running"
    /\ choice = 0 /\ poisons = 0 /\ retries = 0
    /\ startVit = <<>> /\ nonTied = 0

RECURSIVE SeqsUpTo(_, _)
SeqsUpTo(S, n) ==
    IF n = 0 THEN {<<>>}
    ELSE LET P == SeqsUpTo(S, n - 1)
         IN  P \cup {Append(p, x) : p \in {q \in P : Len(q) = n - 1}, x \in S}

\* ---- initial state: play_turn entered --------------------------------------
Init ==
    /\ objectives \in SeqsUpTo(Targets, MaxObjectives)
    /\ player \in [speed : Speeds, strength : Strengths]
    /\ it = 0
    /\ scores = <<>>
    /\ mainPc = "for"
    /\ threads = <<>>
    /\ stdin = "none"
    /\ final = NoState
    /\ turnResult = Running
    /\ ticks = 0 /\ sent = 0 /\ recvd = 0 /\ lateTicks = 0
    /\ obs = NoObs
    /\ shown = NoShown
    /\ NoGame
    /\ call = NoCall

\* ---- calling thread --------------------------------------------------------
\* game.rs:214-216 and counter.rs:52-77: next objective, Counter::new,
\* mpsc::channel, thread::spawn
Spawn ==
    /\ mainPc = "for"
    /\ it < Len(objectives)
    /\ it' = it + 1
    /\ threads' = Append(threads, [pc |-> "check", counter |-> 0, miss |-> 0, rx |-> 0])
    /\ mainPc' = "read_line"
    /\ UNCHANGED <<gameVars, call, objectives, player, scores, stdin, final, turnResult, ghosts>>

\* counter.rs:80-81: let _ = io::stdin().read_line(&mut dummy)
ReadLine ==
    /\ mainPc = "read_line"
    /\ \E r \in {"line", "eof", "err"} : stdin' = r
    /\ mainPc' = "send"
    /\ UNCHANGED <<gameVars, call, objectives, player, it, scores, threads, final, turnResult, ghosts>>

\* variant of Send: the signal is put on the channel twice
SendTwice ==
    /\ mainPc = "send"
    /\ threads' = [threads EXCEPT ![cur].rx = @ + 2]
    /\ sent' = sent + 2
    /\ mainPc' = "join"
    /\ UNCHANGED <<gameVars, call, objectives, player, it, scores, stdin, final, turnResult,
                   ticks, recvd, lateTicks, obs, shown>>

\* variant of Send: fire-and-forget, the caller goes on without joining
SendWithoutJoin ==
    /\ mainPc = "send"
    /\ threads' = [threads EXCEPT ![cur].rx = @ + 1]
    /\ sent' = sent + 1
    /\ mainPc' = "score"
    /\ UNCHANGED <<gameVars, call, objectives, player, it, scores, stdin, final, turnResult,
                   ticks, recvd, lateTicks, obs, shown>>

\* counter.rs:84: tx.send(()).unwrap()
Send ==
    /\ mainPc = "send"
    /\ IF threads[cur].pc \in Ticking
       THEN /\ threads' = [threads EXCEPT ![cur].rx = @ + 1]
            /\ sent' = sent + 1
            /\ mainPc' = "join"
       ELSE /\ mainPc' = "panic"
            /\ UNCHANGED <<threads, sent>>
    /\ UNCHANGED <<gameVars, call, objectives, player, it, scores, stdin, final, turnResult,
                   ticks, recvd, lateTicks, obs, shown>>

\* variant of Join: the caller takes the thread's state without waiting for its exit
JoinWithoutWaiting ==
    /\ mainPc = "join"
    /\ final' = [counter |-> threads[cur].counter, miss |-> threads[cur].miss]
    /\ mainPc' = "score"
    /\ UNCHANGED <<gameVars, call, objectives, player, it, scores, threads, stdin, turnResult, ghosts>>

\* variant of JoinPanics: a default state stands in for the lost one
JoinFabricates ==
    /\ mainPc = "join"
    /\ threads[cur].pc = "panicked"
    /\ final' = NoState
    /\ mainPc' = "score"
    /\ UNCHANGED <<gameVars, call, objectives, player, it, scores, threads, stdin,
                   turnResult, ghosts>>

\* counter.rs:86: handle.join() is Err when the thread panicked, unwrap() panics
JoinPanics ==
    /\ mainPc = "join"
    /\ threads[cur].pc = "panicked"
    /\ mainPc' = "panic"
    /\ UNCHANGED <<gameVars, call, objectives, player, it, scores, threads, stdin, final,
                   turnResult, ghosts>>

\* counter.rs:86-88: handle.join().unwrap(), return (final_counter, final_miss)
Join ==
    /\ mainPc = "join"
    /\ threads[cur].pc = "returned"
    /\ final' = [counter |-> threads[cur].counter, miss |-> threads[cur].miss]
    /\ threads' = [threads EXCEPT ![cur] = Joined]
    /\ mainPc' = "score"
    /\ UNCHANGED <<gameVars, call, objectives, player, it, scores, stdin, turnResult, ghosts>>

\* game.rs:218-224: calculate_score, scores.push, end of the loop body
Score ==
    /\ mainPc = "score"
    /\ scores' = Append(scores,
                   calculate_score(objectives[it], final.counter, final.miss, player.strength))
    /\ final' = NoState
    /\ mainPc' = "for"
    /\ ticks' = 0 /\ sent' = 0 /\ recvd' = 0 /\ lateTicks' = 0
    /\ obs' = NoObs
    /\ shown' = NoShown
    /\ stdin' = "none"
    /\ UNCHANGED <<gameVars, call, objectives, player, it, threads, turnResult>>

\* game.rs:225-226: calculate_average, Ok((average, scores))
Average ==
    /\ mainPc = "for"
    /\ it = Len(objectives)
    /\ turnResult' = [status |-> "ok", average |-> calculate_average(scores), scores |-> scores]
    /\ mainPc' = "done"
    /\ UNCHANGED <<gameVars, call, objectives, player, it, scores, threads, stdin, final, ghosts>>

\* ---- ticking thread t ------------------------------------------------------
\* variant of CheckStop: the loop never looks at the channel
CheckStopIgnoresSignal(t) ==
    /\ threads[t].pc = "check"
    /\ ticks < MaxTicks
    /\ threads' = [threads EXCEPT ![t].pc = "display"]
    /\ UNCHANGED <<gameVars, call, objectives, player, it, scores, mainPc, stdin, final, turnResult, ghosts>>

\* counter.rs:62-64: if rx.try_recv().is_ok() { return (counter, miss) }
CheckStop(t) ==
    /\ threads[t].pc = "check"
    /\ IF threads[t].rx > 0
       THEN /\ threads' = [threads EXCEPT ![t].pc = "returned", ![t].rx = @ - 1]
            /\ recvd' = recvd + 1
            /\ obs' = [counter |-> threads[t].counter, miss |-> threads[t].miss,
                         ticks |-> ticks]
       ELSE /\ ticks < MaxTicks
            /\ threads' = [threads EXCEPT ![t].pc = "display"]
            /\ UNCHANGED <<recvd, obs>>
    /\ UNCHANGED <<gameVars, call, objectives, player, it, scores, mainPc, stdin, final, turnResult,
                   ticks, sent, lateTicks, shown>>

\* variant of Display: the loop increments the counter before it renders it
DisplayAfterIncrement(t) ==
    /\ threads[t].pc = "display"
    /\ LET c == (threads[t].counter + 1) % Modulus
           m == IF c = 0 THEN threads[t].miss + 1 ELSE threads[t].miss
       IN  /\ threads' = [threads EXCEPT ![t].pc = "sleep", ![t].counter = c, ![t].miss = m]
           /\ shown' = [any |-> TRUE, counter |-> c, miss |-> m]
    /\ ticks' = ticks + 1
    /\ lateTicks' = IF sent > 0 THEN lateTicks + 1 ELSE lateTicks
    /\ UNCHANGED <<gameVars, call, objectives, player, it, scores, mainPc, stdin, final, turnResult,
                   sent, recvd, obs>>

\* counter.rs:66-67: print!, stdout().flush()
Display(t) ==
    /\ threads[t].pc = "display"
    /\ threads' = [threads EXCEPT ![t].pc = "tick"]
    /\ shown' = [any |-> TRUE, counter |-> threads[t].counter, miss |-> threads[t].miss]
    /\ UNCHANGED <<gameVars, call, objectives, player, it, scores, mainPc, stdin, final, turnResult,
                   ticks, sent, recvd, lateTicks, obs>>

\* counter.rs:66-67: print! or stdout().flush().unwrap() panics on a write
\* failure; the thread unwinds and its Receiver is dropped
DisplayFails(t) ==
    /\ threads[t].pc = "display"
    /\ threads' = [threads EXCEPT ![t].pc = "panicked", ![t].rx = 0]
    /\ UNCHANGED <<gameVars, call, objectives, player, it, scores, mainPc, stdin, final,
                   turnResult, ghosts>>

\* variant of Tick: the counter wraps at 100 instead of 101
TickWrapsAt100(t) ==
    /\ threads[t].pc = "tick"
    /\ LET c == (threads[t].counter + 1) % 100
       IN  threads' = [threads EXCEPT ![t].pc = "sleep",
                                      ![t].counter = c,
                                      ![t].miss = IF c = 0 THEN @ + 1 ELSE @]
    /\ ticks' = ticks + 1
    /\ lateTicks' = IF sent > 0 THEN lateTicks + 1 ELSE lateTicks
    /\ UNCHANGED <<gameVars, call, objectives, player, it, scores, mainPc, stdin, final, turnResult,
                   sent, recvd, obs, shown>>

\* variant of Tick: the counter wraps one value late
TickModulo102(t) ==
    /\ threads[t].pc = "tick"
    /\ LET c == (threads[t].counter + 1) % 102
       IN  threads' = [threads EXCEPT ![t].pc = "sleep",
                                      ![t].counter = c,
                                      ![t].miss = IF c = 0 THEN @ + 1 ELSE @]
    /\ ticks' = ticks + 1
    /\ lateTicks' = IF sent > 0 THEN lateTicks + 1 ELSE lateTicks
    /\ UNCHANGED <<gameVars, call, objectives, player, it, scores, mainPc, stdin, final, turnResult,
                   sent, recvd, obs, shown>>

\* counter.rs:70-74: counter = (counter + 1) % 101; if counter == 0 { miss += 1 }
Tick(t) ==
    /\ threads[t].pc = "tick"
    /\ LET c == (threads[t].counter + 1) % Modulus
       IN  threads' = [threads EXCEPT ![t].pc = "sleep",
                                      ![t].counter = c,
                                      ![t].miss = IF c = 0 THEN @ + 1 ELSE @]
    /\ ticks' = ticks + 1
    /\ lateTicks' = IF sent > 0 THEN lateTicks + 1 ELSE lateTicks
    /\ UNCHANGED <<gameVars, call, objectives, player, it, scores, mainPc, stdin, final, turnResult,
                   sent, recvd, obs, shown>>

\* variant of Sleep: the loop re-enters below the try_recv check
SleepSkipsCheck(t) ==
    /\ threads[t].pc = "sleep"
    /\ ticks < MaxTicks
    /\ threads' = [threads EXCEPT ![t].pc = "display"]
    /\ UNCHANGED <<gameVars, call, objectives, player, it, scores, mainPc, stdin, final, turnResult, ghosts>>

\* counter.rs:75: thread::sleep(Duration::from_millis(speed)), back to the loop head
Sleep(t) ==
    /\ threads[t].pc = "sleep"
    /\ threads' = [threads EXCEPT ![t].pc = "check"]
    /\ UNCHANGED <<gameVars, call, objectives, player, it, scores, mainPc, stdin, final, turnResult, ghosts>>

Thread == \E t \in DOMAIN threads : CheckStop(t) \/ Display(t) \/ Tick(t) \/ Sleep(t)
Main == Spawn \/ ReadLine \/ Send \/ Join \/ Score \/ Average

Next ==
    \/ Spawn
    \/ ReadLine
    \/ Send
    \/ Join
    \/ Score
    \/ Average
    \/ \E t \in DOMAIN threads : CheckStop(t)
    \/ \E t \in DOMAIN threads : Display(t)
    \/ \E t \in DOMAIN threads : Tick(t)
    \/ \E t \in DOMAIN threads : Sleep(t)

Spec == Init /\ [][Next]_vars

\* the turn when standard output may fail under the ticking thread
PanicNext ==
    \/ Spawn
    \/ ReadLine
    \/ Send
    \/ Join
    \/ JoinPanics
    \/ Score
    \/ Average
    \/ \E t \in DOMAIN threads : CheckStop(t)
    \/ \E t \in DOMAIN threads : Display(t)
    \/ \E t \in DOMAIN threads : DisplayFails(t)
    \/ \E t \in DOMAIN threads : Tick(t)
    \/ \E t \in DOMAIN threads : Sleep(t)

PanicSpec == Init /\ [][PanicNext]_vars

\* a turn of exactly one objective: a single Counter::run
CounterInit == Init /\ Len(objectives) = 1

\* the scheduler runs a runnable thread eventually; the caller blocked in join resumes
FairSpec == CounterInit /\ [][Next]_vars /\ WF_vars(Thread) /\ WF_vars(Join)

\* ---- player.rs, poison.rs ------------------------------------------------
\* variant of apply_poison: plain subtraction, no floor at zero
apply_poison_unclamped(p, poison) ==
    IF poison = "Speed"
    THEN [p EXCEPT !.speed = @ - PoisonAmount]
    ELSE [p EXCEPT !.strength = @ - PoisonAmount]

\* Player::apply_poison, called by poison::apply_poison
apply_poison(p, poison) ==
    IF poison = "Speed"
    THEN [p EXCEPT !.speed = IF @ >= PoisonAmount THEN @ - PoisonAmount ELSE 0]
    ELSE [p EXCEPT !.strength = IF @ >= PoisonAmount THEN @ - PoisonAmount ELSE 0]

\* u32::saturating_sub
saturating_sub(a, b) == IF a >= b THEN a - b ELSE 0

\* ---- game.rs -------------------------------------------------------------
\* the value Game::play_turn returns when its Counter::run calls return stops
play_turn(objs, stops, strength) ==
    calculate_average([k \in 1..Len(objs) |->
        calculate_score(objs[k], stops[k].counter, stops[k].miss, strength)])

SeqsOfLen(S, n) == {q \in SeqsUpTo(S, n) : Len(q) = n}

\* no play_turn in progress in this thread of the model
NoTurn ==
    /\ objectives = <<>>
    /\ player = [speed |-> 0, strength |-> 0]
    /\ it = 0
    /\ scores = <<>>
    /\ mainPc = "none"
    /\ threads = <<>>
    /\ stdin = "none"
    /\ final = NoState
    /\ turnResult = Running
    /\ ticks = 0 /\ sent = 0 /\ recvd = 0 /\ lateTicks = 0
    /\ obs = NoObs
    /\ shown = NoShown

\* Game::new(players, objectifs_count), Game::run entered
GameInit ==
    /\ \E n \in PlayerCounts :
         players \in {q \in [1..n -> [name : {Names[1], Names[2], Names[3]},
                                      vitality : Vitalities,
                                      speed : InitSpeeds,
                                      strength : InitStrengths]] :
                        \A k \in 1..n : q[k].name = Names[k]}
    /\ objectifs_count \in ObjectiveCounts
    /\ round = 1
    /\ gamePc = "while"
    /\ turnOf = 0
    /\ roundScores = <<>>
    /\ loser = 0
    /\ runResult = "running"
    /\ choice = 0 /\ poisons = 0 /\ retries = 0
    /\ startVit = [k \in DOMAIN players |-> players[k].vitality]
    /\ nonTied = 0
    /\ NoTurn
    /\ call = NoCall

AllAlive == \A k \in DOMAIN players : players[k].vitality > 0

\* variant of StartRound: the loop goes on while any player has vitality left
StartRoundAny ==
    /\ gamePc = "while"
    /\ \E k \in DOMAIN players : players[k].vitality > 0
    /\ round <= MaxRounds
    /\ gamePc' = "turn"
    /\ roundScores' = <<>>
    /\ turnOf' = 1
    /\ loser' = 0
    /\ choice' = 0 /\ poisons' = 0 /\ retries' = 0
    /\ UNCHANGED <<turnVars, call, startVit, nonTied, players, objectifs_count, round, runResult>>

\* game.rs:70-75: the while condition holds, a round starts
StartRound ==
    /\ gamePc = "while"
    /\ AllAlive
    /\ round <= MaxRounds
    /\ gamePc' = "turn"
    /\ roundScores' = <<>>
    /\ turnOf' = 1
    /\ loser' = 0
    /\ choice' = 0 /\ poisons' = 0 /\ retries' = 0
    /\ UNCHANGED <<turnVars, call, startVit, nonTied, players, objectifs_count, round, runResult>>

\* game.rs:70, 150-151: the while condition fails, Ok(())
GameOver ==
    /\ gamePc = "while"
    /\ ~AllAlive
    /\ gamePc' = "done"
    /\ runResult' = "ok"
    /\ UNCHANGED <<turnVars, call, choiceVars, startVit, nonTied, players, objectifs_count, round, turnOf,
                   roundScores, loser>>

\* game.rs:91: self.wait_enter()? fails on a read error
WaitEnterFails ==
    /\ gamePc = "turn"
    /\ turnOf <= Len(players)
    /\ gamePc' = "done"
    /\ runResult' = "err"
    /\ UNCHANGED <<turnVars, call, choiceVars, startVit, nonTied, players, objectifs_count, round, turnOf,
                   roundScores, loser>>

\* game.rs:75-98: Objectives::generate, wait_enter, play_turn, scores.push
PlayerTurn ==
    /\ gamePc = "turn"
    /\ turnOf <= Len(players)
    /\ \E objs \in SeqsOfLen(Targets, objectifs_count) :
       \E stops \in SeqsOfLen(StopStates, objectifs_count) :
          roundScores' = Append(roundScores,
                                play_turn(objs, stops, players[turnOf].strength))
    /\ turnOf' = turnOf + 1
    /\ UNCHANGED <<turnVars, call, choiceVars, startVit, nonTied, players, objectifs_count, round, gamePc, loser,
                   runResult>>

\* variant of TooFewPlayers: the round is abandoned and the game ends normally
TooFewPlayersOk ==
    /\ gamePc = "turn"
    /\ turnOf > Len(players)
    /\ Len(roundScores) < 2
    /\ gamePc' = "done"
    /\ runResult' = "ok"
    /\ UNCHANGED <<turnVars, call, choiceVars, startVit, nonTied, players, objectifs_count, round, turnOf,
                   roundScores, loser>>

\* game.rs:101-103: fewer than two scores
TooFewPlayers ==
    /\ gamePc = "turn"
    /\ turnOf > Len(players)
    /\ Len(roundScores) < 2
    /\ gamePc' = "done"
    /\ runResult' = "err"
    /\ UNCHANGED <<turnVars, call, choiceVars, startVit, nonTied, players, objectifs_count, round, turnOf,
                   roundScores, loser>>

\* game.rs:106-110: equal scores, no penalty
Tie ==
    /\ gamePc = "turn"
    /\ turnOf > Len(players)
    /\ Len(roundScores) >= 2
    /\ roundScores[1] = roundScores[2]
    /\ round' = round + 1
    /\ gamePc' = "while"
    /\ UNCHANGED <<turnVars, call, choiceVars, startVit, nonTied, players, objectifs_count, turnOf, roundScores,
                   loser, runResult>>

\* variant of Penalty: the vitality is taken from the winner
PenaltyOnWinner ==
    /\ gamePc = "turn"
    /\ turnOf > Len(players)
    /\ Len(roundScores) >= 2
    /\ roundScores[1] # roundScores[2]
    /\ LET w == IF roundScores[1] > roundScores[2] THEN 1 ELSE 2
           l == 3 - w
           diff == saturating_sub(roundScores[w], roundScores[l])
       IN  /\ players' = [players EXCEPT ![w].vitality = saturating_sub(@, diff)]
           /\ loser' = l
    /\ gamePc' = "choice"
    /\ nonTied' = nonTied + 1
    /\ UNCHANGED <<turnVars, call, choiceVars, startVit, objectifs_count, round, turnOf, roundScores,
                   runResult>>

\* variant of Penalty: the loser is named but keeps its vitality
PenaltyNone ==
    /\ gamePc = "turn"
    /\ turnOf > Len(players)
    /\ Len(roundScores) >= 2
    /\ roundScores[1] # roundScores[2]
    /\ LET w == IF roundScores[1] > roundScores[2] THEN 1 ELSE 2
           l == 3 - w
           diff == saturating_sub(roundScores[w], roundScores[l])
       IN  /\ players' = players
           /\ loser' = l
    /\ gamePc' = "choice"
    /\ nonTied' = nonTied + 1
    /\ UNCHANGED <<turnVars, call, choiceVars, startVit, objectifs_count, round, turnOf, roundScores,
                   runResult>>

\* game.rs:113-125: winner and loser, the loser's vitality penalty
Penalty ==
    /\ gamePc = "turn"
    /\ turnOf > Len(players)
    /\ Len(roundScores) >= 2
    /\ roundScores[1] # roundScores[2]
    /\ LET w == IF roundScores[1] > roundScores[2] THEN 1 ELSE 2
           l == 3 - w
           diff == saturating_sub(roundScores[w], roundScores[l])
       IN  /\ players' = [players EXCEPT ![l].vitality = saturating_sub(@, diff)]
           /\ loser' = l
    /\ gamePc' = "choice"
    /\ nonTied' = nonTied + 1
    /\ UNCHANGED <<turnVars, call, choiceVars, startVit, objectifs_count, round, turnOf, roundScores,
                   runResult>>

\* str::trim: white space is removed at both ends
IsSpace(c) == c \in {" ", "\n"}

RECURSIVE trim_start(_)
trim_start(s) == IF s # <<>> /\ IsSpace(Head(s)) THEN trim_start(Tail(s)) ELSE s

RECURSIVE trim_end(_)
trim_end(s) ==
    IF s # <<>> /\ IsSpace(s[Len(s)]) THEN trim_end(SubSeq(s, 1, Len(s) - 1)) ELSE s

trim(s) == trim_end(trim_start(s))

\* str::parse::<u32>: an optional "+", then one decimal digit or more (the
\* lines of Lines stay below the ten digits at which from_str tests overflow)
DigitChars == <<"0", "1", "2", "3", "4", "5", "6", "7", "8", "9">>
IsDigit(c) == \E i \in DOMAIN DigitChars : DigitChars[i] = c
digit(c) == (CHOOSE i \in DOMAIN DigitChars : DigitChars[i] = c) - 1

RECURSIVE digits_value(_, _)
digits_value(s, acc) ==
    IF s = <<>> THEN acc ELSE digits_value(Tail(s), acc * Radix + digit(Head(s)))

parse_u32(s) ==
    LET ds == IF s # <<>> /\ Head(s) = "+" THEN Tail(s) ELSE s
    IN  IF ds # <<>> /\ \A i \in DOMAIN ds : IsDigit(ds[i])
        THEN [ok |-> TRUE, value |-> digits_value(ds, 0)]
        ELSE [ok |-> FALSE, value |-> 0]

\* variant of get_choice_returns: every number that parses is returned
get_choice_returns_any(line) == parse_u32(trim(line)).ok

\* game.rs:180-185: the trimmed answer parses to 1 or 2 and is returned
get_choice_returns(line) ==
    LET r == parse_u32(trim(line))
    IN  r.ok /\ (r.value = 1 \/ r.value = 2)

\* game.rs:134, 176-179: get_choice fails on a write or read error
GetChoiceFails ==
    /\ gamePc = "choice"
    /\ gamePc' = "done"
    /\ runResult' = "err"
    /\ UNCHANGED <<turnVars, call, choiceVars, startVit, nonTied, players, objectifs_count, round, turnOf,
                   roundScores, loser>>

\* game.rs:175-187: the answer is not 1 or 2 (or the input has ended): "Choix
\* invalide" and the loop asks again
GetChoiceRetry ==
    /\ gamePc = "choice"
    /\ retries < MaxRetries
    /\ \E line \in Lines : ~get_choice_returns(line)
    /\ retries' = retries + 1
    /\ UNCHANGED <<turnVars, call, startVit, nonTied, players, objectifs_count, round, gamePc, turnOf,
                   roundScores, loser, runResult, choice, poisons>>

\* game.rs:134-147: get_choice returned choice, the match applies the poison
\* (or, on another value, none), round += 1
ChoosePoison ==
    /\ gamePc = "choice"
    /\ \E line \in Lines :
         /\ get_choice_returns(line)
         /\ choice' = parse_u32(trim(line)).value
    /\ IF choice' = 1
       THEN /\ players' = [players EXCEPT ![loser] = apply_poison(@, "Speed")]
            /\ poisons' = poisons + 1
       ELSE IF choice' = 2
       THEN /\ players' = [players EXCEPT ![loser] = apply_poison(@, "Strength")]
            /\ poisons' = poisons + 1
       ELSE /\ players' = players
            /\ poisons' = poisons
    /\ round' = round + 1
    /\ gamePc' = "while"
    /\ UNCHANGED <<turnVars, call, startVit, nonTied, objectifs_count, turnOf, roundScores, loser,
                   runResult, retries>>

GameNext ==
    \/ StartRound
    \/ GameOver
    \/ WaitEnterFails
    \/ PlayerTurn
    \/ TooFewPlayers
    \/ Tie
    \/ Penalty
    \/ GetChoiceFails
    \/ GetChoiceRetry
    \/ ChoosePoison

GameSpec == GameInit /\ [][GameNext]_vars

\* ---- calls of the scoring functions -------------------------------------
FnInit ==
    /\ NoTurn
    /\ NoGame
    /\ call = NoCall

\* ScoringCalculator::difference(objective, counter_value)
CallDifference ==
    /\ call = NoCall
    /\ \E o \in Values, v \in Values :
         call' = [f |-> "difference", objective |-> o, counter_value |-> v,
                  underflow |-> difference_underflows(o, v),
                  result |-> difference(o, v)]
    /\ UNCHANGED <<turnVars, gameVars>>

\* the base score of diff in scoring.rs and in utils.rs
CallTier ==
    /\ call = NoCall
    /\ \E d \in 0..MaxDiff :
         call' = [f |-> "tier", diff |-> d, base |-> tier_base(d),
                  arms |-> utils_arms_of(d), utils |-> utils_base(d)]
    /\ UNCHANGED <<turnVars, gameVars>>

\* utils::calculate_score(diff, miss, strength)
CallUtilsScore ==
    /\ call = NoCall
    /\ \E d \in 0..MaxDiff, m \in MissInputs, st \in StrengthInputs, b \in Builds :
         call' = [f |-> "utils_score", diff |-> d, miss |-> m, strength |-> st,
                  build |-> b, out |-> utils_calculate_score(d, m, st, b)]
    /\ UNCHANGED <<turnVars, gameVars>>

\* ScoringCalculator::calculate_average(scores)
CallAverage ==
    /\ call = NoCall
    /\ \E sc \in SeqsUpTo(ScoreInputs, MaxScores), b \in Builds :
         call' = [f |-> "average", scores |-> sc, build |-> b,
                  sum |-> Sum(sc), out |-> average_u32(sc, b)]
    /\ UNCHANGED <<turnVars, gameVars>>

\* ScoringCalculator::calculate_score and utils::calculate_score on the same
\* arguments, the distance of the second from ScoringCalculator::difference
CallBothScores ==
    /\ call = NoCall
    /\ \E o \in Targets, v \in Values, m \in MissInputs,
          st \in StrengthInputs \cup {I32Max}, b \in Builds :
         call' = [f |-> "both_scores", objective |-> o, counter_value |-> v,
                  miss |-> m, strength |-> st, build |-> b,
                  scoring |-> calculate_score_u32(o, v, m, st, b),
                  utils |-> utils_calculate_score(difference(o, v), m, st, b)]
    /\ UNCHANGED <<turnVars, gameVars>>

FnNext ==
    \/ CallDifference
    \/ CallTier
    \/ CallUtilsScore
    \/ CallAverage
    \/ CallBothScores

FnSpec == FnInit /\ [][FnNext]_vars

TypeOK ==
    /\ it \in 0..Len(objectives)
    /\ mainPc \in {"none", "for", "read_line", "send", "join", "score", "done", "panic"}
    /\ \A t \in DOMAIN threads : threads[t].pc \in Ticking \cup {"returned", "joined", "panicked"}
    /\ shown \in [any : BOOLEAN, counter : 0..(Modulus - 1), miss : Nat]

\* ---- properties ----------------------------------------------------------
Live == {t \in DOMAIN threads : threads[t].pc \in Ticking \cup {"returned"}}
ReadFailed == stdin \in {"eof", "err"}

\* C1: no tick is performed after the thread has observed the stop signal, and
\* at most one tick is performed between the send of the stop signal and the
\* thread's return.
C1_StopBoundsTicks ==
    /\ lateTicks <= 1
    /\ recvd > 0 => ticks = obs.ticks

C1_Witness == lateTicks = 1 /\ recvd = 1 /\ mainPc = "join"

\* C2: Counter::run returns only after the ticking thread has exited, and the
\* pair it returns is the thread's state at the moment it observed the stop
\* signal; between the observation and the return the state does not change.
C2_ReturnIsObservedState ==
    /\ mainPc = "score" =>
          /\ threads[cur].pc = "joined"
          /\ recvd = 1
          /\ final = [counter |-> obs.counter, miss |-> obs.miss]
    /\ \A t \in DOMAIN threads : threads[t].pc = "returned" =>
          /\ threads[t].counter = obs.counter
          /\ threads[t].miss = obs.miss

C2_Witness == mainPc = "score" /\ final.counter = 7 /\ lateTicks = 1

\* C3: once the stop trigger has returned and the stop signal has been sent,
\* the thread eventually observes it and Counter::run eventually returns.
C3_StopLeadsToReturn == (mainPc = "join") ~> (mainPc = "score")

C3_Witness == mainPc = "score" /\ sent = 1 /\ final.miss = 1 /\ ReadFailed = FALSE

\* C4 (as claimed): value lies in 0..99 in every state of a running counter and
\* in the state returned at stop.
C4_ValueBelow100 ==
    /\ \A t \in DOMAIN threads : threads[t].counter <= 99
    /\ final.counter <= 99

\* C5: after n ticks miss = n div cycle_length and value = n mod cycle_length,
\* cycle_length being the number of values the counter cycles through (101);
\* miss never decreases and grows by exactly 1 on exactly the ticks that wrap
\* value to 0.
C5_MissAndValueFromTicks ==
    /\ [](\A t \in Live : /\ threads[t].miss = ticks \div Modulus
                          /\ threads[t].counter = ticks % Modulus)
    /\ [][\A t \in DOMAIN threads :
            threads'[t].pc # "joined" =>
               /\ threads'[t].miss \in {threads[t].miss, threads[t].miss + 1}
               /\ (threads'[t].miss = threads[t].miss + 1)
                    <=> (ticks' = ticks + 1 /\ threads'[t].counter = 0)]_vars

C5_Witness ==
    \E t \in Live : threads[t].miss = 1 /\ threads[t].counter = 0 /\ ticks = Modulus

\* C6: the value returned by Counter::run never exceeds 100.
C6_ReturnedValueAtMost100 == mainPc = "score" => final.counter <= 100

C6_Witness == mainPc = "score" /\ final.counter = 100

\* C7: during one counter lifetime exactly one stop signal is sent and it is
\* received exactly once; a second stop never occurs.
C7_OneStopSignal ==
    /\ sent <= 1
    /\ recvd <= sent
    /\ \A t \in DOMAIN threads : threads[t].rx = (IF t = cur THEN sent - recvd ELSE 0)
    /\ mainPc = "join" => sent = 1
    /\ mainPc = "score" => sent = 1 /\ recvd = 1

C7_Witness == mainPc = "score" /\ sent = 1 /\ recvd = 1 /\ it = 2

\* C8: at most one ticking thread exists at any time (the next counter starts
\* only after the previous one has been stopped and joined); the score list has
\* one score per target, in target order, and score k is
\* calculate_score(target k, final value k, final miss k, strength).
C8_OneCounterAtATime ==
    /\ [](/\ Cardinality(Live) <= 1
          /\ \A t \in DOMAIN threads : t < cur => threads[t].pc = "joined"
          /\ cur = it
          /\ turnResult.status = "ok" =>
                /\ Len(turnResult.scores) = Len(objectives)
                /\ turnResult.scores = scores)
    /\ [][mainPc = "score" =>
            scores' = Append(scores,
                        calculate_score(objectives[Len(scores) + 1], final.counter,
                                        final.miss, player.strength))]_vars

C8_Witness ==
    /\ turnResult.status = "ok"
    /\ Len(turnResult.scores) = 2
    /\ turnResult.scores[1] # turnResult.scores[2]

\* C9 (as claimed): with an empty target list the turn fails instead of
\* returning a result.
C9_EmptyTurnFails == objectives = <<>> => turnResult.status # "ok"

\* C10 (as claimed): when the read of the stop trigger fails or hits
\* end-of-stream, no stop signal is sent and no score is produced for that
\* target.
C10_ReadFailureAbortsTurn == ReadFailed => (sent = 0 /\ Len(scores) < it)

\* C11: if the ticking thread panics before observing the stop signal,
\* Counter::run returns no (value, miss) pair: the caller panics in turn (or is
\* still on its way to send/join) and no score is computed for that target.
C11_PanicPropagates ==
    \A t \in DOMAIN threads : threads[t].pc = "panicked" =>
        /\ t = cur
        /\ mainPc \in {"read_line", "send", "join", "panic"}
        /\ final = NoState
        /\ Len(scores) < it
        /\ turnResult.status = "running"

C11_Witness ==
    /\ mainPc = "panic"
    /\ threads[cur].pc = "panicked"
    /\ sent = 1
    /\ ticks > 0

\* C12 (as claimed): every counter started during a game gets a positive tick
\* rate: the speed of the player whose turn starts is > 0.
C12_TickRatePositive ==
    (gamePc = "turn" /\ turnOf \in DOMAIN players /\ objectifs_count > 0)
        => players[turnOf].speed > 0

\* C18: in a non-tied round the player with the lower average loses vitality
\* equal to the difference of the two averages, saturating at 0, and every
\* other player is unchanged; in a tied round, and during the turns of any
\* round, no player changes.
Compared == gamePc = "turn" /\ turnOf > Len(players) /\ Len(roundScores) >= 2

C18_PenaltyOnLoserOnly ==
    [][/\ Compared /\ roundScores[1] # roundScores[2] =>
            LET lo == IF roundScores[1] < roundScores[2] THEN 1 ELSE 2
                d == roundScores[3 - lo] - roundScores[lo]
            IN  /\ d > 0
                /\ players'[lo].vitality =
                      (IF players[lo].vitality > d THEN players[lo].vitality - d ELSE 0)
                /\ players' = [players EXCEPT ![lo].vitality = players'[lo].vitality]
       /\ Compared /\ roundScores[1] = roundScores[2] => players' = players
       /\ gamePc \in {"while", "turn"} /\ ~Compared => players' = players]_vars

C18_Witness ==
    /\ gamePc = "choice"
    /\ players[loser].vitality = 1
    /\ players[3 - loser].vitality = 3
    /\ Len(players) = 3

\* C19: a round starts if and only if every player's vitality is > 0 at the
\* loop condition; once some vitality is 0 no turn is played and the loop
\* condition makes run return Ok.
C19_RoundIffAllAlive ==
    /\ [](gamePc = "turn" /\ turnOf <= Len(players) => AllAlive)
    /\ [](runResult = "ok" => ~AllAlive)
    /\ [][gamePc = "while" =>
            /\ AllAlive => (gamePc' = "turn" /\ turnOf' = 1 /\ runResult' = "running")
            /\ ~AllAlive => (gamePc' = "done" /\ runResult' = "ok")]_vars

C19_Witness ==
    /\ runResult = "ok"
    /\ round = 3
    /\ \E k \in DOMAIN players : players[k].vitality = 0

\* C20: a poison lowers exactly the chosen stat of the loser by 5, or sets it
\* to 0 when it is below 5; the loser's other stats, name and vitality and every
\* other player are unchanged; no stat goes below zero.
C20_PoisonFrame ==
    /\ [](\A k \in DOMAIN players : players[k].speed >= 0 /\ players[k].strength >= 0)
    /\ [][gamePc = "choice" /\ gamePc' = "while" =>
            LET old == players[loser]
                Lowered(x) == IF x < 5 THEN 0 ELSE x - 5
            IN  \/ players' = [players EXCEPT ![loser] =
                                 [name |-> old.name, vitality |-> old.vitality,
                                  speed |-> Lowered(old.speed), strength |-> old.strength]]
                \/ players' = [players EXCEPT ![loser] =
                                 [name |-> old.name, vitality |-> old.vitality,
                                  speed |-> old.speed, strength |-> Lowered(old.strength)]]]_vars

C20_Witness ==
    /\ gamePc = "while"
    /\ round = 3
    /\ loser # 0
    /\ players[loser].speed = 0
    /\ players[loser].strength = 45
    /\ Len(players) = 2

Abs(x) == IF x >= 0 THEN x ELSE 0 - x

\* C13: for objective and counter_value in 0..=100, difference equals
\* min(|counter_value - objective|, 100 - |counter_value - objective|) and no
\* unsigned subtraction goes below zero.
C13_DifferenceIsWrapDistance ==
    call.f = "difference" =>
        /\ ~call.underflow
        /\ call.result = Min(Abs(call.counter_value - call.objective),
                             100 - Abs(call.counter_value - call.objective))

C13_Witness ==
    /\ call.f = "difference"
    /\ call.objective = 15
    /\ call.counter_value = 95
    /\ call.result = 20

\* C14: for target and value in [0,100), difference(target, value) =
\* difference(value, target) and difference(target, value) <= 50.
C14_SymmetricAtMostHalf ==
    (call.f = "difference" /\ call.objective < 100 /\ call.counter_value < 100) =>
        /\ call.result = difference(call.counter_value, call.objective)
        /\ call.result <= 50

C14_Witness ==
    /\ call.f = "difference"
    /\ call.objective = 99
    /\ call.counter_value = 49
    /\ call.result = 50

\* C16: the tier base is defined for every distance, its ranges are contiguous
\* and do not overlap, and it is non-increasing: d1 <= d2 implies
\* base(d1) >= base(d2).
C16_TierMonotone ==
    call.f = "tier" =>
        /\ call.base \in {100, 80, 60, 40, 20, 0}
        /\ call.utils = call.base
        /\ Cardinality(call.arms) <= 1
        /\ call.arms = {} <=> call.diff > 50
        /\ \A k \in 1..(Len(UtilsArms) - 1) : UtilsArms[k + 1].lo = UtilsArms[k].hi + 1
        /\ \A d1 \in 0..call.diff : /\ tier_base(d1) >= call.base
                                    /\ utils_base(d1) >= call.utils

C16_Witness == call.f = "tier" /\ call.diff = 51 /\ call.base = 0

\* the quotient (base + strength) / (miss + 1) over the integers; for
\* miss + 1 >= 2^31 it is 0, the numerator being smaller
ScoreQuotient(d, m, st) ==
    IF m.hi = 0 /\ m.lo < I32Max
    THEN (tier_base(d) + st) \div (m.lo + 1)
    ELSE 0

\* C15 (as claimed): for every diff, miss and strength >= 0 calculate_score
\* returns (base + strength) / (miss + 1), truncated, and the denominator is
\* never zero.
C15_ScoreIsQuotient ==
    call.f = "utils_score" =>
        /\ ~call.out.den_zero
        /\ ~call.out.panic
        /\ call.out.value = ScoreQuotient(call.diff, call.miss, call.strength)

\* the least a with a * len >= sum, as 1 + floor((sum - 1) / len), for a sum
\* [hi, lo] that is the true sum of the list
CeilMean(sum, len) ==
    IF sum.hi = 0
    THEN IF sum.lo = 0 THEN 0 ELSE 1 + (sum.lo - 1) \div len
    ELSE 1 + (I32Max \div len) + (sum.lo \div len)
           + ((I32Max % len) + (sum.lo % len)) \div len

\* C17 (as claimed): for every non-empty list of scores calculate_average
\* returns the ceiling of the arithmetic mean, the least a with
\* a * len >= sum of the scores.
C17_AverageIsCeiling ==
    (call.f = "average" /\ Len(call.scores) > 0) =>
        /\ ~call.out.panic
        /\ ~call.sum.overflow
        /\ call.out.value = CeilMean(call.sum, Len(call.scores))

\* C21 (as claimed): started with fewer than two players, Game::run returns an
\* error.
C21_FewPlayersAlwaysErr ==
    (Len(players) < 2 /\ gamePc = "done") => runResult = "err"

\* C21 (amended): started with fewer than two players, all of them with
\* vitality > 0, Game::run returns an error; a single player with vitality 0
\* makes it return Ok before any turn; with fewer than two players no vitality
\* penalty and no poison is ever applied.
C21_FewPlayersErrUnlessDead ==
    /\ [](Len(players) < 2 /\ gamePc = "done" =>
            /\ AllAlive => runResult = "err"
            /\ ~AllAlive => (runResult = "ok" /\ roundScores = <<>>))
    /\ [][Len(players) < 2 => players' = players]_vars

C21_Witness ==
    /\ Len(players) = 1
    /\ gamePc = "done"
    /\ runResult = "err"
    /\ Len(roundScores) = 1

\* C22: when a progress line was rendered, the state Counter::run returns is
\* the last rendered state advanced by exactly one tick (counter + 1 modulo the
\* cycle, miss + 1 if that tick wrapped), so it differs from what was shown;
\* when none was rendered the stop was seen before the first tick and (0, 0)
\* is returned.
C22_ReturnedIsShownPlusOneTick ==
    mainPc = "score" =>
        IF shown.any
        THEN /\ final.counter = (shown.counter + 1) % Modulus
             /\ final.miss = IF final.counter = 0 THEN shown.miss + 1 ELSE shown.miss
             /\ final.counter # shown.counter
        ELSE final = [counter |-> 0, miss |-> 0]

C22_Witness ==
    /\ mainPc = "score"
    /\ shown = [any |-> TRUE, counter |-> 100, miss |-> 0]
    /\ final = [counter |-> 0, miss |-> 1]

\* C23: get_choice only ever returns 1 or 2, so in every round with a loser
\* the step that leaves the choice applies the speed or the strength poison to
\* the loser and exactly one poison has been applied when the next round may
\* start; a tied round applies none.
C23_ExactlyOnePoison ==
    /\ [](choice \in {0, 1, 2})
    /\ [](gamePc = "while" => poisons = (IF loser # 0 THEN 1 ELSE 0))
    /\ [][gamePc = "choice" /\ gamePc' = "while" =>
            \/ players' = [players EXCEPT ![loser] = apply_poison(@, "Speed")]
            \/ players' = [players EXCEPT ![loser] = apply_poison(@, "Strength")]]_vars

C23_Witness ==
    /\ gamePc = "while"
    /\ loser # 0
    /\ retries > 0
    /\ choice = 2
    /\ poisons = 1

C25_ScoresAgree ==
    call.f = "both_scores" =>
        /\ ~call.scoring.panic
        /\ ~call.utils.panic
        /\ call.scoring.value.hi = 0
        /\ call.scoring.value.lo = call.utils.value

\* the two functions do agree where no i32 of utils overflows
C25_AgreeOnOrdinaryInputs ==
    (call.f = "both_scores" /\ call.miss.hi = 0 /\ call.miss.lo < I32Max
                            /\ call.strength < I32Max - Cycle) =>
        /\ ~call.scoring.panic
        /\ ~call.utils.panic
        /\ call.scoring.value = [hi |-> 0, lo |-> call.utils.value]
        /\ call.scoring.value.lo =
             calculate_score(call.objective, call.counter_value, call.miss.lo, call.strength)
====
